---- MODULE Spec2Model ----
(***************************************************************************)
(* NetFlow version 7 (Catalyst 5000) header and flow record:               *)
(* V7Header.GetVersion / SetVersion, V7FlowRecord.Bytes / Len / Unmarshal. *)
(* Unmarshal is modelled one primitive field read per step.                *)
(***************************************************************************)
EXTENDS Integers, Sequences, FiniteSets, TLC

VARIABLES
    r,        \* the receiver *V7FlowRecord
    r0,       \* value of the receiver when the current Unmarshal was called
    h,        \* the io.Reader: [data, off, fault]
    off0,     \* stream offset when the current Unmarshal was called
    pc,       \* "idle", "read" (before field read k), "reterr" (at a return err), "retnil" (at return nil)
    k,        \* index in ReadOrder of the next field read of Unmarshal
    err,      \* the local variable err of Unmarshal
    ret,      \* what the last Unmarshal returned ("none" before the first return)
    nreads,   \* primitive reads issued by the current Unmarshal
    failedAt, \* index of the read of the current Unmarshal that failed, 0 if none
    trace,    \* the fields the current Unmarshal assigned, in the order assigned
    recs,     \* the records whose encodings make up the stream
    out,      \* results handed to the caller, one per finished Unmarshal
    ncalls,   \* Unmarshal calls made
    lens,     \* values returned by the Len calls so far
    packed,   \* value returned by the last Bytes call
    nbytes,   \* Bytes calls made
    hdr,      \* the receiver *V7Header
    lastSet,  \* argument of the most recent SetVersion
    got,      \* value returned by the last GetVersion
    nsets,    \* SetVersion calls made
    ngets     \* GetVersion calls made

vars == <<r, r0, h, off0, pc, k, err, ret, nreads, failedAt, trace, recs, out,
          ncalls, lens, packed, nbytes, hdr, lastSet, got, nsets, ngets>>

recVars == <<r, r0, h, off0, pc, k, err, ret, nreads, failedAt, trace, recs,
             out, ncalls>>
lenVars == <<lens, packed, nbytes>>
hdrVars == <<hdr, lastSet, got, nsets, ngets>>

----------------------------------------------------------------------------
(* Bounds *)

MaxRecs == 2       \* records encoded into one stream
MaxLenCalls == 3   \* Len calls on one record
MaxBytesCalls == 2 \* Bytes calls on one record
MaxHdrCalls == 3   \* SetVersion calls, and GetVersion calls, on one header

----------------------------------------------------------------------------
(* Field kinds and widths *)

Width(kind) ==
    CASE kind = "uint8"    -> 1
      [] kind = "uint16"   -> 2
      [] kind = "uint32"   -> 4
      [] kind = "LongIPv4" -> 4

\* V7FlowRecord with Pad0 declared uint8
LayoutPad0Byte ==
    << [name |-> "SrcAddr",  kind |-> "LongIPv4"],
       [name |-> "DstAddr",  kind |-> "LongIPv4"],
       [name |-> "NextHop",  kind |-> "LongIPv4"],
       [name |-> "Input",    kind |-> "uint16"],
       [name |-> "Output",   kind |-> "uint16"],
       [name |-> "Packets",  kind |-> "uint32"],
       [name |-> "Octets",   kind |-> "uint32"],
       [name |-> "First",    kind |-> "uint32"],
       [name |-> "Last",     kind |-> "uint32"],
       [name |-> "SrcPort",  kind |-> "uint16"],
       [name |-> "DstPort",  kind |-> "uint16"],
       [name |-> "Pad0",     kind |-> "uint8"],
       [name |-> "TCPFlags", kind |-> "uint8"],
       [name |-> "Protocol", kind |-> "uint8"],
       [name |-> "ToS",      kind |-> "uint8"],
       [name |-> "SrcAS",    kind |-> "uint16"],
       [name |-> "DstAS",    kind |-> "uint16"],
       [name |-> "SrcMask",  kind |-> "uint8"],
       [name |-> "DstMask",  kind |-> "uint8"],
       [name |-> "Flags",    kind |-> "uint16"],
       [name |-> "RouterSC", kind |-> "LongIPv4"] >>

\* the fields of V7FlowRecord in declaration order
Layout ==
    << [name |-> "SrcAddr",  kind |-> "LongIPv4"],
       [name |-> "DstAddr",  kind |-> "LongIPv4"],
       [name |-> "NextHop",  kind |-> "LongIPv4"],
       [name |-> "Input",    kind |-> "uint16"],
       [name |-> "Output",   kind |-> "uint16"],
       [name |-> "Packets",  kind |-> "uint32"],
       [name |-> "Octets",   kind |-> "uint32"],
       [name |-> "First",    kind |-> "uint32"],
       [name |-> "Last",     kind |-> "uint32"],
       [name |-> "SrcPort",  kind |-> "uint16"],
       [name |-> "DstPort",  kind |-> "uint16"],
       [name |-> "Pad0",     kind |-> "uint16"],
       [name |-> "TCPFlags", kind |-> "uint8"],
       [name |-> "Protocol", kind |-> "uint8"],
       [name |-> "ToS",      kind |-> "uint8"],
       [name |-> "SrcAS",    kind |-> "uint16"],
       [name |-> "DstAS",    kind |-> "uint16"],
       [name |-> "SrcMask",  kind |-> "uint8"],
       [name |-> "DstMask",  kind |-> "uint8"],
       [name |-> "Flags",    kind |-> "uint16"],
       [name |-> "RouterSC", kind |-> "LongIPv4"] >>

FieldNames == { Layout[i].name : i \in 1..Len(Layout) }

\* Unmarshal with its first two reads exchanged
ReadOrderDstFirst ==
    << [name |-> "DstAddr",  kind |-> "LongIPv4"],
       [name |-> "SrcAddr",  kind |-> "LongIPv4"],
       [name |-> "NextHop",  kind |-> "LongIPv4"],
       [name |-> "Input",    kind |-> "uint16"],
       [name |-> "Output",   kind |-> "uint16"],
       [name |-> "Packets",  kind |-> "uint32"],
       [name |-> "Octets",   kind |-> "uint32"],
       [name |-> "First",    kind |-> "uint32"],
       [name |-> "Last",     kind |-> "uint32"],
       [name |-> "SrcPort",  kind |-> "uint16"],
       [name |-> "DstPort",  kind |-> "uint16"],
       [name |-> "Pad0",     kind |-> "uint16"],
       [name |-> "Protocol", kind |-> "uint8"],
       [name |-> "ToS",      kind |-> "uint8"],
       [name |-> "SrcAS",    kind |-> "uint16"],
       [name |-> "DstAS",    kind |-> "uint16"],
       [name |-> "SrcMask",  kind |-> "uint8"],
       [name |-> "DstMask",  kind |-> "uint8"],
       [name |-> "Flags",    kind |-> "uint16"],
       [name |-> "RouterSC", kind |-> "LongIPv4"] >>

\* the field reads of Unmarshal, in the order of its statements: the field
\* assigned and the reader called (readLongIPv4, readUint16, readUint32,
\* readUint8).  There is no read of TCPFlags.
ReadOrder ==
    << [name |-> "SrcAddr",  kind |-> "LongIPv4"],
       [name |-> "DstAddr",  kind |-> "LongIPv4"],
       [name |-> "NextHop",  kind |-> "LongIPv4"],
       [name |-> "Input",    kind |-> "uint16"],
       [name |-> "Output",   kind |-> "uint16"],
       [name |-> "Packets",  kind |-> "uint32"],
       [name |-> "Octets",   kind |-> "uint32"],
       [name |-> "First",    kind |-> "uint32"],
       [name |-> "Last",     kind |-> "uint32"],
       [name |-> "SrcPort",  kind |-> "uint16"],
       [name |-> "DstPort",  kind |-> "uint16"],
       [name |-> "Pad0",     kind |-> "uint16"],
       [name |-> "Protocol", kind |-> "uint8"],
       [name |-> "ToS",      kind |-> "uint8"],
       [name |-> "SrcAS",    kind |-> "uint16"],
       [name |-> "DstAS",    kind |-> "uint16"],
       [name |-> "SrcMask",  kind |-> "uint8"],
       [name |-> "DstMask",  kind |-> "uint8"],
       [name |-> "Flags",    kind |-> "uint16"],
       [name |-> "RouterSC", kind |-> "LongIPv4"] >>

----------------------------------------------------------------------------
(* Generic struct codec: structPack, structLen *)

RECURSIVE Pow256(_)
Pow256(n) == IF n = 0 THEN 1 ELSE 256 * Pow256(n - 1)

\* v as w bytes, most significant first
BigEndian(v, w) == [i \in 1..w |-> (v \div Pow256(w - i)) % 256]

RECURSIVE FromBigEndian(_)
FromBigEndian(bs) ==
    IF bs = <<>> THEN 0
    ELSE 256 * FromBigEndian(SubSeq(bs, 1, Len(bs) - 1)) + bs[Len(bs)]

\* the bytes of one field value
PackField(kind, v) ==
    IF kind = "LongIPv4" THEN v ELSE BigEndian(v, Width(kind))

\* the value of one field from exactly Width(kind) bytes
UnpackField(kind, bs) ==
    IF kind = "LongIPv4" THEN bs ELSE FromBigEndian(bs)

ZeroValue(kind) ==
    IF kind = "LongIPv4" THEN <<0, 0, 0, 0>> ELSE 0

RECURSIVE PackFrom(_, _)
PackFrom(rec, i) ==
    IF i > Len(Layout) THEN <<>>
    ELSE PackField(Layout[i].kind, rec[Layout[i].name]) \o PackFrom(rec, i + 1)

structPack(rec) == PackFrom(rec, 1)

RECURSIVE SumWidths(_, _)
SumWidths(fields, n) ==
    IF n = 0 THEN 0 ELSE SumWidths(fields, n - 1) + Width(fields[n].kind)

structLen(rec) == SumWidths(Layout, Len(Layout))

Bytes(rec) == structPack(rec)

RecLen(rec) == structLen(rec)

----------------------------------------------------------------------------
(* Record values *)

KindOf(f) == Layout[CHOOSE i \in 1..Len(Layout) : Layout[i].name = f].kind

ZeroRecord == [f \in FieldNames |-> ZeroValue(KindOf(f))]

\* every byte of the encoding differs from every other: byte i is i
DistinctRecord ==
    [SrcAddr  |-> <<1, 2, 3, 4>>,
     DstAddr  |-> <<5, 6, 7, 8>>,
     NextHop  |-> <<9, 10, 11, 12>>,
     Input    |-> 13 * 256 + 14,
     Output   |-> 15 * 256 + 16,
     Packets  |-> ((17 * 256 + 18) * 256 + 19) * 256 + 20,
     Octets   |-> ((21 * 256 + 22) * 256 + 23) * 256 + 24,
     First    |-> ((25 * 256 + 26) * 256 + 27) * 256 + 28,
     Last     |-> ((29 * 256 + 30) * 256 + 31) * 256 + 32,
     SrcPort  |-> 33 * 256 + 34,
     DstPort  |-> 35 * 256 + 36,
     Pad0     |-> 37 * 256 + 38,
     TCPFlags |-> 39,
     Protocol |-> 40,
     ToS      |-> 41,
     SrcAS    |-> 42 * 256 + 43,
     DstAS    |-> 44 * 256 + 45,
     SrcMask  |-> 46,
     DstMask  |-> 47,
     Flags    |-> 48 * 256 + 49,
     RouterSC |-> <<50, 51, 52, 53>>]

\* 192.168.1.1/24:80 -> 10.0.0.1/16:443, TCP with SYN|ACK, all else zero
ExampleRecord ==
    [ZeroRecord EXCEPT !.SrcAddr = <<192, 168, 1, 1>>,
                       !.DstAddr = <<10, 0, 0, 1>>,
                       !.SrcPort = 80,
                       !.DstPort = 443,
                       !.SrcMask = 24,
                       !.DstMask = 16,
                       !.TCPFlags = 18,
                       !.Protocol = 6]

\* a receiver used before: every byte 0x55
StaleRecord ==
    [f \in FieldNames |->
        UnpackField(KindOf(f), [i \in 1..Width(KindOf(f)) |-> 85])]

\* the largest value of a field; for uint32 the largest one the model
\* checker's 32-bit integers hold, 0x7FFFFFFF
MaxValue(kind) ==
    CASE kind = "LongIPv4" -> <<255, 255, 255, 255>>
      [] kind = "uint32"   -> 2147483647
      [] OTHER             -> Pow256(Width(kind)) - 1

Records == {ZeroRecord, DistinctRecord, ExampleRecord}

Receivers == {ZeroRecord, StaleRecord}

\* the records Len and Bytes are called on: also one field at its maximum
LenRecords ==
    Records \cup {StaleRecord}
            \cup { [ZeroRecord EXCEPT ![f] = MaxValue(KindOf(f))] : f \in FieldNames }

----------------------------------------------------------------------------
(* Primitive field reader: readUint8, readUint16, readUint32, readLongIPv4 *)

Nil == [kind |-> "nil", got |-> 0, want |-> 0]

NoRet == [kind |-> "none", got |-> 0, want |-> 0]

Avail(s) == Len(s.data) - s.off

\* bytes a read of this kind may take from the stream
Consumed(kind, s) ==
    IF Avail(s) >= Width(kind) THEN {Width(kind)} ELSE 0..Avail(s)

\* one read of a field of this kind that takes c bytes from the stream
readPrim(kind, s, c) ==
    IF Avail(s) >= Width(kind)
    THEN [v   |-> UnpackField(kind, SubSeq(s.data, s.off + 1, s.off + Width(kind))),
          err |-> Nil,
          s   |-> [s EXCEPT !.off = s.off + Width(kind)]]
    ELSE [v   |-> ZeroValue(kind),
          err |-> [kind |-> IF s.fault THEN "IOError" ELSE "ShortRead",
                   got  |-> Avail(s),
                   want |-> Width(kind)],
          s   |-> [s EXCEPT !.off = s.off + c]]

----------------------------------------------------------------------------
(* V7FlowRecord.Unmarshal *)

\* the stream holding the first cut bytes of the encodings of rs
StreamOf(rs, cut, fault) ==
    LET RECURSIVE Cat(_)
        Cat(n) == IF n = 0 THEN <<>> ELSE Cat(n - 1) \o Bytes(rs[n])
    IN [data |-> SubSeq(Cat(Len(rs)), 1, cut), off |-> 0, fault |-> fault]

\* r.f, err = read(h): the field is assigned whatever the reader returned
UnmarshalAssignReset(rec, f, v, e) ==
    IF e # Nil THEN ZeroRecord ELSE [rec EXCEPT ![f] = v]

UnmarshalAssign(rec, f, v, e) == [rec EXCEPT ![f] = v]

\* where Unmarshal goes after read i returned e
AfterReadNoCheck(i, e) ==
    IF i = Len(ReadOrder) THEN [pc |-> "retnil", k |-> i]
    ELSE [pc |-> "read", k |-> i + 1]

AfterRead(i, e) ==
    IF e # Nil THEN [pc |-> "reterr", k |-> i]
    ELSE IF i = Len(ReadOrder) THEN [pc |-> "retnil", k |-> i]
    ELSE [pc |-> "read", k |-> i + 1]

\* the value of a return err statement
ReturnErrWrapped(e) == [e EXCEPT !.kind = "wrapped"]

ReturnErr(e) == e

Call ==
    /\ pc = "idle"
    /\ ncalls < Len(recs)
    /\ \E rcv \in Receivers :
          /\ r' = rcv
          /\ r0' = rcv
    /\ off0' = h.off
    /\ pc' = "read"
    /\ k' = 1
    /\ err' = Nil
    /\ nreads' = 0
    /\ failedAt' = 0
    /\ trace' = <<>>
    /\ ncalls' = ncalls + 1
    /\ UNCHANGED <<h, ret, recs, out, lenVars, hdrVars>>

ReadField ==
    /\ pc = "read"
    /\ \E c \in Consumed(ReadOrder[k].kind, h) :
          LET fld == ReadOrder[k]
              res == readPrim(fld.kind, h, c)
              nxt == AfterRead(k, res.err)
          IN /\ r' = UnmarshalAssign(r, fld.name, res.v, res.err)
             /\ err' = res.err
             /\ h' = res.s
             /\ trace' = Append(trace, fld.name)
             /\ failedAt' = IF failedAt = 0 /\ res.err # Nil THEN k ELSE failedAt
             /\ pc' = nxt.pc
             /\ k' = nxt.k
    /\ nreads' = nreads + 1
    /\ UNCHANGED <<r0, off0, ret, recs, out, ncalls, lenVars, hdrVars>>

Return ==
    /\ pc \in {"reterr", "retnil"}
    /\ ret' = IF pc = "reterr" THEN ReturnErr(err) ELSE Nil
    /\ out' = Append(out, [rec |-> r, err |-> ret', start |-> off0, n |-> h.off - off0])
    /\ pc' = "idle"
    /\ UNCHANGED <<r, r0, h, off0, k, err, nreads, failedAt, trace, recs,
                   ncalls, lenVars, hdrVars>>

----------------------------------------------------------------------------
(* V7FlowRecord.Len, V7FlowRecord.Bytes *)

CallLen ==
    /\ Len(lens) < MaxLenCalls
    /\ lens' = Append(lens, [len |-> RecLen(r), nbytes |-> nbytes])
    /\ UNCHANGED <<recVars, packed, nbytes, hdrVars>>

CallBytes ==
    /\ nbytes < MaxBytesCalls
    /\ packed' = Bytes(r)
    /\ nbytes' = nbytes + 1
    /\ UNCHANGED <<recVars, lens, hdrVars>>

----------------------------------------------------------------------------
(* V7Header *)

Versions == {0, 1, 5, 7, 65535}

\* SetVersion that also writes the field declared after the embedded header
SetVersionClobber(hd, v) == [hd EXCEPT !.Version = v, !.FlowSequence = v]

SetVersion(hd, v) == [hd EXCEPT !.Version = v]

GetVersion(hd) == hd.Version

CallSetVersion ==
    /\ nsets < MaxHdrCalls
    /\ \E v \in Versions :
          /\ hdr' = SetVersion(hdr, v)
          /\ lastSet' = v
    /\ nsets' = nsets + 1
    /\ UNCHANGED <<recVars, lenVars, got, ngets>>

CallGetVersion ==
    /\ ngets < MaxHdrCalls
    /\ got' = GetVersion(hdr)
    /\ ngets' = ngets + 1
    /\ UNCHANGED <<recVars, lenVars, hdr, lastSet, nsets>>

----------------------------------------------------------------------------
(* Specifications *)

RecIdle ==
    /\ r0 = ZeroRecord
    /\ off0 = 0
    /\ pc = "idle"
    /\ k = 1
    /\ err = Nil
    /\ ret = NoRet
    /\ nreads = 0
    /\ failedAt = 0
    /\ trace = <<>>
    /\ out = <<>>
    /\ ncalls = 0

LenIdle ==
    /\ lens = <<>>
    /\ packed = <<>>
    /\ nbytes = 0

HdrIdle ==
    /\ hdr = [Version |-> 7, Base |-> 0, FlowSequence |-> 0, Reserved |-> 0]
    /\ lastSet = 0
    /\ got = 0
    /\ nsets = 0
    /\ ngets = 0

\* Unmarshal calls on a stream holding the encodings of one or more records,
\* cut anywhere inside the last one, ending cleanly or in an I/O fault
Init ==
    /\ RecIdle
    /\ r = ZeroRecord
    /\ \E n \in 1..MaxRecs :
          /\ recs \in [1..n -> Records]
          /\ \E cut \in (n - 1) * RecLen(ZeroRecord) .. n * RecLen(ZeroRecord) :
                \E fault \in BOOLEAN : h = StreamOf(recs, cut, fault)
    /\ LenIdle
    /\ HdrIdle

Next == Call \/ ReadField \/ Return

Spec == Init /\ [][Next]_vars

\* Len and Bytes calls on one record
InitLen ==
    /\ RecIdle
    /\ recs = <<>>
    /\ h = StreamOf(<<>>, 0, FALSE)
    /\ \E rec \in LenRecords : r = rec
    /\ LenIdle
    /\ HdrIdle

NextLen == CallLen \/ CallBytes

SpecLen == InitLen /\ [][NextLen]_vars

\* SetVersion and GetVersion calls on one header
InitHeader ==
    /\ RecIdle
    /\ r = ZeroRecord
    /\ recs = <<>>
    /\ h = StreamOf(<<>>, 0, FALSE)
    /\ LenIdle
    /\ hdr \in [Version : Versions, Base : {0, 1},
                 FlowSequence : {0, 1431655765}, Reserved : {0, 1431655765}]
    /\ lastSet = 0
    /\ got = 0
    /\ nsets = 0
    /\ ngets = 0

NextHeader == CallSetVersion \/ CallGetVersion

SpecHeader == InitHeader /\ [][NextHeader]_vars

----------------------------------------------------------------------------
(* Properties *)

\* w bytes of s after the first a, -1 where s has none
Slice(s, a, w) == [j \in 1..w |-> IF a + j <= Len(s) THEN s[a + j] ELSE -1]

\* offset of field i of fields, the sum of the widths before it
Offset(fields, i) == SumWidths(fields, i - 1)

Count(f) == Cardinality({i \in 1..Len(trace) : trace[i] = f})

Failed(e) == e.kind \notin {"nil", "none"}

Returned == pc = "idle" /\ ncalls > 0

\* C1: Unmarshal on a stream holding exactly R.Bytes() returns nil and
\* leaves the receiver equal to R in all 21 fields.
RoundTrip ==
    (Returned /\ Len(recs) = 1 /\ h.data = Bytes(recs[1]))
        => (ret = Nil /\ \A f \in FieldNames : r[f] = recs[1][f])

\* C2: every Unmarshal that starts with fewer than 53 bytes left in the
\* stream returns a non-nil error, a short read when the stream just ends.
ShortReadDetected ==
    \A i \in 1..Len(out) :
        (Len(h.data) - out[i].start < 53)
            => (Failed(out[i].err) /\ (~h.fault => out[i].err.kind = "ShortRead"))

\* C3: a successful Unmarshal assigns each of the 21 declared fields exactly
\* once, in declaration order, each from the bytes at its wire offset.
FieldOrderPreserved ==
    (Returned /\ ret = Nil)
        => /\ trace = [i \in 1..Len(Layout) |-> Layout[i].name]
           /\ \A i \in 1..Len(Layout) :
                /\ Count(Layout[i].name) = 1
                /\ r[Layout[i].name] =
                     UnpackField(Layout[i].kind,
                                 Slice(h.data, off0 + Offset(Layout, i),
                                       Width(Layout[i].kind)))

\* C4: every Len call returns 53, before and after Bytes, and Bytes returns
\* that many bytes, whatever the field values.
LengthCorrect ==
    /\ \A i \in 1..Len(lens) : lens[i].len = 53
    /\ nbytes > 0 => (Len(packed) = 53 /\ Len(packed) = RecLen(r))

LengthCorrectWitness ==
    /\ r # ZeroRecord
    /\ nbytes > 0
    /\ \E i, j \in 1..Len(lens) : lens[i].nbytes = 0 /\ lens[j].nbytes > 0

\* C5: on the stream Bytes(R1) ++ ... ++ Bytes(Rn), the i-th Unmarshal
\* succeeds, takes exactly Len(Ri) = 53 bytes and yields Ri, and the n-th
\* leaves the stream empty.
RecordBoundaries ==
    (Len(h.data) = Len(recs) * 53)
        => \A i \in 1..Len(out) :
              /\ out[i].err = Nil
              /\ out[i].n = RecLen(out[i].rec)
              /\ out[i].n = 53
              /\ out[i].rec = recs[i]
              /\ (i = Len(recs) => h.off = Len(h.data))

\* C6: after an Unmarshal that returned an error the receiver is unchanged
\* from before the call.
AllOrNothing ==
    (Returned /\ Failed(ret)) => r = r0

\* C6, amended: after an Unmarshal that returned an error the receiver is
\* partially populated: the fields assigned by the reads before the failing
\* one hold the values decoded from the stream's bytes in the order read, the
\* fields of the later reads keep the values they had before the call.
PartialRecordOnError ==
    (Returned /\ Failed(ret))
        => /\ failedAt \in 1..Len(ReadOrder)
           /\ \A i \in 1..(failedAt - 1) :
                r[ReadOrder[i].name] =
                    UnpackField(ReadOrder[i].kind,
                                Slice(h.data, off0 + Offset(ReadOrder, i),
                                      Width(ReadOrder[i].kind)))
           /\ \A i \in (failedAt + 1)..Len(ReadOrder) :
                r[ReadOrder[i].name] = r0[ReadOrder[i].name]

PartialRecordOnErrorWitness ==
    /\ Returned
    /\ Failed(ret)
    /\ failedAt > 2
    /\ r0 = StaleRecord
    /\ r.SrcAddr = <<192, 168, 1, 1>>
    /\ r.DstAddr = <<10, 0, 0, 1>>
    /\ r.RouterSC = StaleRecord.RouterSC

\* C7: once a field read of Unmarshal has failed, the only step the call
\* takes is to return that read's error unchanged: no further read, no byte
\* taken from the stream.
FirstErrorStop ==
    [][(failedAt # 0 /\ failedAt' # 0)
          => /\ nreads = failedAt
             /\ nreads' = nreads
             /\ h' = h
             /\ pc = "reterr"
             /\ pc' = "idle"
             /\ err.kind \in {"ShortRead", "IOError"}
             /\ err.want = Width(ReadOrder[failedAt].kind)
             /\ err.got < err.want
             /\ ret' = err]_vars

FirstErrorStopWitness ==
    /\ Returned
    /\ failedAt = 6
    /\ nreads = 6
    /\ ret = [kind |-> "IOError", got |-> 3, want |-> 4]

\* C8: Unmarshal on an empty stream fails with a short read on its first
\* field read, of SrcAddr: one read is attempted and no byte is taken.
EmptyStreamFails ==
    (Returned /\ Len(h.data) = off0 /\ ~h.fault)
        => /\ ret.kind = "ShortRead"
           /\ ret.got = 0
           /\ failedAt = 1
           /\ nreads = 1
           /\ trace = <<"SrcAddr">>
           /\ h.off = off0

EmptyStreamFailsWitness ==
    /\ Returned
    /\ h.data = <<>>
    /\ ~h.fault
    /\ ret.kind = "ShortRead"

\* C9: GetVersion returns the argument of the most recent SetVersion and
\* changes nothing; SetVersion changes the Version field only.
VersionAccessor ==
    [][/\ (ngets' # ngets) => (hdr' = hdr /\ (nsets > 0 => got' = lastSet))
       /\ (nsets' # nsets) =>
            /\ hdr'.Version = lastSet'
            /\ hdr'.Base = hdr.Base
            /\ hdr'.FlowSequence = hdr.FlowSequence
            /\ hdr'.Reserved = hdr.Reserved]_vars

VersionAccessorWitness ==
    /\ nsets >= 2
    /\ ngets >= 1
    /\ got = lastSet
    /\ got = 5
    /\ hdr.Version = 5
    /\ hdr.FlowSequence # 0
    /\ hdr.Reserved # 0

\* C10: from the failure of its k-th field read on, the fields Unmarshal
\* assigns in later reads keep the values they had before the call; a call
\* never takes more bytes than the stream held, nor more than 53.
FailureFrame ==
    /\ failedAt # 0 =>
          \A i \in (failedAt + 1)..Len(ReadOrder) :
              r[ReadOrder[i].name] = r0[ReadOrder[i].name]
    /\ h.off <= Len(h.data)
    /\ h.off - off0 <= 53

FailureFrameWitness ==
    /\ Returned
    /\ failedAt = 12
    /\ r0 = StaleRecord
    /\ r.DstPort # r0.DstPort
    /\ r.Protocol = r0.Protocol
    /\ r.RouterSC = r0.RouterSC
    /\ h.off = Len(h.data)
    /\ h.off - off0 = 37

====
